---- MODULE Spec2Model ----
(***************************************************************************)
(* ts-optionals.                                                           *)
(*                                                                         *)
(* The consuming Option (src/src/option_helpers.ts, class Option): an      *)
(* instance owns one private field, #value, holding either a payload or    *)
(* the `none` symbol.  The getter `unwrap` hands the payload out and       *)
(* overwrites #value with `none`.  The model is a heap of Option instances *)
(* driven by a client that calls the factories and the methods one at a    *)
(* time; `last` is what the client observed of the latest call (returned   *)
(* value or thrown error).  Specification: Spec.                           *)
(*                                                                         *)
(* The containers with a readonly `variant` field: Option                  *)
(* (src/src/option/utils.ts), Result (src/src/result/result.ts) and Either *)
(* (src/src/either/either.ts).  They live in a second heap, with `seen`    *)
(* as the client's observation.  Specification: SpecV.                     *)
(*                                                                         *)
(* The strict Option (src/unnamed/part_004), whose Some refuses null and   *)
(* undefined: SpecS.  The helper functions and instanceof tests of         *)
(* src/src/option_helpers.ts on the consuming Option: SpecH.               *)
(*                                                                         *)
(* fromAsync is two steps, the call (which runs fn and returns a promise)  *)
(* and the continuation after the await; `pending` holds the calls made    *)
(* and not yet resumed.  Option.fromAsync: SpecA.  Result.fromAsync:       *)
(* SpecRA.  Result.from and Result.fromAsync are not in                    *)
(* src/src/result/result.ts; they are known through src/src/result_test.ts *)
(* and build on that class's Ok and Err.                                   *)
(***************************************************************************)
EXTENDS Integers, FiniteSets, Sequences, Bags, TLC

\* ----------------------------------------------------------------- bounds
\* Number of Option instances the client may construct.
MaxObj == 3
\* Number of containers with a variant, the shared None included.
MaxInst == 3
\* Number of fromAsync calls whose promise has not settled yet.
MaxPending == 2

\* ------------------------------------------------------- JavaScript values
\* A value is a record: k is its kind, n its content (the number, the
\* string's length, 0/1 for false/true, the instance id of an Option).
Null == [k |-> "null", n |-> 0]
Undefined == [k |-> "undefined", n |-> 0]
Num(i) == [k |-> "number", n |-> i]
Str(i) == [k |-> "string", n |-> i]
Bool(b) == [k |-> "boolean", n |-> IF b THEN 1 ELSE 0]
Ref(o) == [k |-> "option", n |-> o]
\* The unique symbol `none` of _types.ts.
none == [k |-> "symbol", n |-> 0]
\* A heap slot no instance occupies yet.
Free == [k |-> "free", n |-> 0]

\* JavaScript's ToBoolean, as used by `!value` in Option.Some.  (NaN and 0n,
\* falsy as well, are not among the values modelled.)
Truthy(v) ==
  CASE v.k = "null" -> FALSE
    [] v.k = "undefined" -> FALSE
    [] v.k = "number" -> v.n # 0
    [] v.k = "string" -> v.n # 0
    [] v.k = "boolean" -> v.n = 1
    [] OTHER -> TRUE

\* The primitive values the client passes in: null, undefined, none, 0, 1,
\* "", "a", false.
Primitives == {Null, Undefined, none, Num(0), Num(1), Str(0), Str(1), Bool(FALSE)}

\* Error messages the client passes to expect().
Messages == {"", "There is no value in the Option"}

\* Fallback values the client passes to unwrapOr: undefined, 0, "a".
Defaults == {Undefined, Num(0), Str(1)}

\* Callbacks (value) => value handed to map and mapOr:
\*   id: (v) => v            dec: (n) => n - 1         toA: (_) => "a"
\*   constNull: (_) => null  constUndefined: (_) => undefined
Fns == {"id", "dec", "toA", "constNull", "constUndefined"}

\* A callback is applied only to a payload of the type it is written for.
FnOk(fn, v) ==
  CASE fn = "dec" -> v.k = "number" /\ v.n > 0
    [] OTHER -> TRUE

Apply(fn, v) ==
  CASE fn = "id" -> v
    [] fn = "dec" -> Num(v.n - 1)
    [] fn = "toA" -> Str(1)
    [] fn = "constNull" -> Null
    [] fn = "constUndefined" -> Undefined

\* The (fallback, callback) pairs the client passes to mapOr.
MapOrArgs ==
  {<<Undefined, "id">>, <<Num(0), "dec">>, <<Str(1), "toA">>, <<Str(1), "constNull">>}

\* Callbacks () => value handed to from and unwrapOrElse; "throws" raises.
Thunks == {"retOne", "retZero", "retNull", "throws"}

ThunkThrows(t) == t = "throws"

Run(t) ==
  CASE t = "retOne" -> Num(1)
    [] t = "retZero" -> Num(0)
    [] t = "retNull" -> Null

\* ------------------------------------------------------------------ state
VARIABLES
  value,   \* value[o]: the private field #value of instance o
  nOpt,    \* number of instances constructed so far
  taken,   \* taken[o]: how many calls of unwrap or expect on o have returned
  last,    \* the latest call and what the caller observed
  tick     \* parity of the number of calls made: every call is a step, also
           \* one that repeats the previous call with the same outcome

\* The containers that keep their content in a `variant` field (Option of
\* option/option.ts, Result, Either) live in a heap of their own.
VARIABLES
  variant, \* variant[i]: class, variant and payload of container i
  nInst,   \* number of containers constructed so far
  seen,    \* the latest call on a container and what the caller observed
  turn     \* parity of the number of calls made on containers

\* The event loop: the bag of callbacks whose fromAsync call has been made
\* and whose promise has not settled yet.
VARIABLES pending

optionVars == <<value, nOpt, taken, last, tick>>
variantVars == <<variant, nInst, seen, turn>>
vars == <<value, nOpt, taken, last, tick, variant, nInst, seen, turn, pending>>

\* pending after the call c: a call of fromAsync adds its callback, the
\* continuation after the await removes it, any other call leaves it.
PendingAfter(c) ==
  CASE c.op \in {"fromAsync", "Result.fromAsync"} -> pending (+) SetToBag({c.fn})
    [] c.op \in {"await fromAsync", "await Result.fromAsync"} -> pending (-) SetToBag({c.fn})
    [] OTHER -> pending

Objs == 1..MaxObj
Live == 1..nOpt

\* ------------------------------------------------------- class Option<T>
\* constructor(value?): this.#value = value ?? none
OptionCtor(v) == IF v = Null \/ v = Undefined THEN none ELSE v

\* static None(): new Option(none).  The #value of the new instance.
None == OptionCtor(none)

\* Variant of Some that stores whatever it is given.
Some_storesAny(v) == v

\* static Some(value): the #value of the new instance.
Some(v) ==
  IF ~Truthy(v) \/ v = Null \/ v = Undefined \/ v = none
    THEN OptionCtor(none)
    ELSE OptionCtor(v)

\* Variant of isNone that tests for null/undefined instead of `none`.
isNone_nullish(v) == v = Null \/ v = Undefined

\* get isNone / get isSome, on the #value v of the instance.
isNone(v) == v = none
isSome(v) == v # none

\* Variant of peek that hides the `none` symbol behind undefined.
peek_undefinedWhenNone(v) == IF v = none THEN Undefined ELSE v

\* get peek
peek(v) == v

\* What a call does.  outcome is "return" (with ret) or "throw" (with err and
\* msg); self is the receiver's #value after the call; fresh tells that a new
\* instance was constructed, with #value `value`, and is what the call returns; same is the
\* existing instance the call returns (0 if none); fnCalls and fnArg record
\* the invocations of the caller's callback.
Effect(v) ==
  [outcome |-> "return", ret |-> Undefined, err |-> "", msg |-> "", self |-> v,
   fresh |-> FALSE, value |-> Free, same |-> 0,
   fnCalls |-> 0, fnArg |-> Undefined]
Return(r, v) == [Effect(v) EXCEPT !.ret = r]
Throw(e, m, v) == [Effect(v) EXCEPT !.outcome = "throw", !.err = e, !.msg = m]
Fresh(nv, v) == [Effect(v) EXCEPT !.fresh = TRUE, !.value = nv]
Same(o, v) == [Effect(v) EXCEPT !.same = o]

\* Variant of unwrap that leaves out `this.#value = none`.
unwrap_keepsValue(v) ==
  IF isNone(v)
    THEN Throw("ReferenceError", "Unwrap called on a None value", v)
    ELSE Return(v, v)

\* Variant of unwrap that throws as the non-consuming Option does.
unwrap_TypeError(v) ==
  IF isNone(v)
    THEN Throw("TypeError", "Trying to get a value from None", v)
    ELSE Return(v, none)

\* get unwrap
unwrap(v) ==
  IF isNone(v)
    THEN Throw("ReferenceError", "Unwrap called on a None value", v)
    ELSE Return(v, none)

\* Variant of expect that returns the payload through peek.
expect_peeking(v, message) ==
  IF isNone(v)
    THEN Throw("ReferenceError", message, v)
    ELSE Return(peek(v), v)

\* Variant of expect that leaves the check (and the message) to unwrap.
expect_ignoresMessage(v, message) == unwrap(v)

\* expect(message)
expect(v, message) ==
  IF isNone(v)
    THEN Throw("ReferenceError", message, v)
    ELSE unwrap(v)

\* Variant of unwrapOr that reads the payload through peek.
unwrapOr_peeking(v, thisValue) ==
  IF isSome(v) THEN Return(peek(v), v) ELSE Return(thisValue, v)

\* Variant of unwrapOr that reads through unwrap whatever the state.
unwrapOr_asUnwrap(v, thisValue) == unwrap(v)

\* unwrapOr(thisValue)
unwrapOr(v, thisValue) ==
  IF isSome(v) THEN unwrap(v) ELSE Return(thisValue, v)

\* unwrapOrElse(doThis); a doThis that throws is not caught.
unwrapOrElse(v, doThis) ==
  IF isSome(v)
    THEN unwrap(v)
    ELSE IF ThunkThrows(doThis)
      THEN [Throw("thrown", "Some error", v) EXCEPT !.fnCalls = 1]
      ELSE [Return(Run(doThis), v) EXCEPT !.fnCalls = 1]

\* Variant of or that answers with the receiver whatever its state.
or_alwaysThis(h, o, other) == Same(o, h[o])

\* or(other)
or(h, o, other) ==
  IF isSome(h[o]) THEN Same(o, h[o]) ELSE Same(other, h[o])

\* Variant of flatten that removes one level of nesting only.
flattened_oneLevel(h, o) ==
  IF isSome(h[o]) /\ h[o].k = "option" THEN h[o].n ELSE o

\* flatten(): the instance at the end of the chain of nested Options
RECURSIVE flattened(_, _)
flattened(h, o) ==
  IF isSome(h[o]) /\ h[o].k = "option"
    THEN flattened(h, h[o].n)
    ELSE o

\* Variant of flatten that answers with a copy of the innermost instance.
flatten_copy(h, o) == Fresh(h[flattened(h, o)], h[o])

\* Variant of flatten that takes the payload out of the receiver.
flatten_emptying(h, o) == Same(flattened(h, o), none)

flatten(h, o) == Same(flattened(h, o), h[o])

\* Variant of map that answers a None with a new None instance.
map_freshNone(h, o, fn) ==
  IF isSome(h[o])
    THEN [Fresh(Some(Apply(fn, h[o])), h[o]) EXCEPT !.fnCalls = 1, !.fnArg = h[o]]
    ELSE Fresh(None, h[o])

\* map(fn)
map(h, o, fn) ==
  IF isSome(h[o])
    THEN [Fresh(Some(Apply(fn, h[o])), h[o]) EXCEPT !.fnCalls = 1, !.fnArg = h[o]]
    ELSE Same(o, h[o])

\* mapOr(value, fn).  The intermediate Option that this.map(fn) constructs
\* is dropped once its peek is read.
mapOr(h, o, fallback, fn) ==
  IF isSome(h[o])
    THEN LET m == map(h, o, fn)
             mappedValue == peek(m.value)
         IN  [Fresh(Some(mappedValue), m.self) EXCEPT
                !.fnCalls = m.fnCalls, !.fnArg = m.fnArg]
    ELSE LET mappedValue == fallback
         IN  Fresh(Some(mappedValue), h[o])

\* static from(fn): Option.Some(fn()); a fn that throws is not caught.
from(fn) ==
  IF ThunkThrows(fn)
    THEN [Throw("thrown", "Some error", Free) EXCEPT !.fnCalls = 1]
    ELSE [Fresh(Some(Run(fn)), Free) EXCEPT !.fnCalls = 1]

\* static async fromAsync(fn): Option.Some(await fn()).  The call runs fn and
\* returns a promise; this is the continuation after the await, once fn's
\* promise has settled: Option.Some of the value it fulfilled with, or the
\* rejection passed on.
fromAsync(fn) ==
  IF ThunkThrows(fn)
    THEN Throw("thrown", "Some error", Free)
    ELSE Fresh(Some(Run(fn)), Free)

\* ------------------------------------- helper functions (option_helpers.ts)
\* Values that are not an Option: null, undefined, 10, and the plain objects
\* {} (n = 0), { isSome: true } (n = 1) and { isNone: true } (n = 2).
NonOptions ==
  {Null, Undefined, Num(10),
   [k |-> "object", n |-> 0], [k |-> "object", n |-> 1], [k |-> "object", n |-> 2]}

\* isSome(value): value instanceof Option && value.isSome
isSome_helper(h, v) == v.k = "option" /\ isSome(h[v.n])

\* isNone(value): value instanceof Option && value.isNone
isNone_helper(h, v) == v.k = "option" /\ isNone(h[v.n])

\* Some[Symbol.hasInstance](instance):
\*   if (typeof instance !== "object") return false;
\*   return instance?.isSome || false;
\* typeof is "object" of an Option, of a plain object and of null; the
\* property read yields undefined on null and on an object without it.
Some_hasInstance(h, v) ==
  IF v.k \notin {"option", "object", "null"}
    THEN FALSE
    ELSE LET prop == CASE v.k = "option" -> Bool(isSome(h[v.n]))
                       [] v.k = "object" /\ v.n = 1 -> Bool(TRUE)
                       [] OTHER -> Undefined
         IN  Truthy(prop)

\* None[Symbol.hasInstance](instance), with isNone in place of isSome.
None_hasInstance(h, v) ==
  IF v.k \notin {"option", "object", "null"}
    THEN FALSE
    ELSE LET prop == CASE v.k = "option" -> Bool(isNone(h[v.n]))
                       [] v.k = "object" /\ v.n = 2 -> Bool(TRUE)
                       [] OTHER -> Undefined
         IN  Truthy(prop)

\* ------------------------------------------- containers with a variant
\* A container is [cls, tag, value]: its class, the data class of its
\* readonly `variant` field, and the value that data class holds.
Inst(i) == [k |-> "instance", n |-> i]

NoInst == [cls |-> "", tag |-> "", value |-> Undefined]

Insts == 1..MaxInst
LiveInsts == 1..nInst

\* Outcome of a call on a container x: the value returned or the error
\* thrown, the container afterwards, a container the call constructs, an
\* existing container the call returns, and the callbacks it invoked, in
\* order, each with its name and its arguments.
EffectV(x) ==
  [outcome |-> "return", ret |-> Undefined, err |-> "", msg |-> "",
   self |-> x, fresh |-> FALSE, made |-> NoInst, same |-> 0, calls |-> <<>>]

ReturnV(r, x) == [EffectV(x) EXCEPT !.ret = r]
ThrowV(e, m, x) == [EffectV(x) EXCEPT !.outcome = "throw", !.err = e, !.msg = m]
FreshV(made, x) == [EffectV(x) EXCEPT !.fresh = TRUE, !.made = made]
SameV(i, x) == [EffectV(x) EXCEPT !.same = i]

\* Handlers passed to match: one that returns its argument (undefined when
\* called without), two that return a constant, and the UNREACHABLE of the
\* tests, which throws.
Handlers == {"echo", "constA", "constB", "UNREACHABLE"}

HandlerResult(h, args) ==
  CASE h = "echo" -> IF args = <<>> THEN Undefined ELSE args[1]
    [] h = "constA" -> Str(0)
    [] h = "constB" -> Str(1)
    [] h = "UNREACHABLE" -> Undefined

\* The handler `name`, bound to h, is called with args inside a call on x;
\* what it returns or throws is what the call returns or throws.
Invoke(name, h, args, x) ==
  LET e == IF h = "UNREACHABLE"
             THEN ThrowV("thrown", "UNREACHABLE", x)
             ELSE ReturnV(HandlerResult(h, args), x)
  IN  [e EXCEPT !.calls = <<[name |-> name, args |-> args]>>]

\* ---------------------------------------- class Option (option/option.ts)
Option_Some(v) == [cls |-> "Option", tag |-> "Some", value |-> v]
Option_None == [cls |-> "Option", tag |-> "None", value |-> Undefined]

Option_isSome(x) == x.tag = "Some"
Option_isNone(x) == x.tag = "None"

Option_unwrap(x) ==
  IF Option_isNone(x)
    THEN ThrowV("TypeError", "Trying to get a value from None", x)
    ELSE ReturnV(x.value, x)

\* match({ Some, None })
\* Variant of unwrapOr that keeps the fallback in a None receiver.
Option_unwrapOr_storing(x, defaultValue) ==
  IF x.tag = "None"
    THEN ReturnV(defaultValue, [x EXCEPT !.tag = "Some", !.value = defaultValue])
    ELSE ReturnV(x.value, x)

\* unwrapOr(defaultValue)
Option_unwrapOr(x, defaultValue) ==
  IF Option_isNone(x) THEN ReturnV(defaultValue, x) ELSE ReturnV(x.value, x)

Option_match(x, handlers) ==
  IF Option_isNone(x)
    THEN Invoke("None", handlers.None, <<>>, x)
    ELSE Invoke("Some", handlers.Some, <<Option_unwrap(x).ret>>, x)

\* the module-level constant None = Option.None() (option/utils.ts)
SharedNone == 1

\* The call of the callback fn on v inside map, mapErr, mapLeft, mapRight.
FnCall(fn, v) == <<[name |-> fn, args |-> <<v>>]>>

\* map(fn) of Option
Option_map(h, i, fn) ==
  IF Option_isNone(h[i])
    THEN SameV(i, h[i])
    ELSE LET v == Option_unwrap(h[i]).ret
         IN  [FreshV(Option_Some(Apply(fn, v)), h[i]) EXCEPT !.calls = FnCall(fn, v)]

\* ------------------------- class Option (option/option.ts), strict version
\* The later option.ts differs from the one above in Some, from and map.
\* isNullable(value) of utils/is-nullable.ts: value == null, which is true
\* of null and undefined only.
isNullable(v) == v = Null \/ v = Undefined

\* Variant of the strict Some that wraps any value.
OptionS_Some_lenient(v) == FreshV(Option_Some(v), NoInst)

\* static Some(value)
OptionS_Some(v) ==
  IF isNullable(v)
    THEN ThrowV("TypeError", "Cannot create an Option containing a nullable value", NoInst)
    ELSE FreshV(Option_Some(v), NoInst)

\* static from(value)
OptionS_from(v) ==
  IF isNullable(v) THEN FreshV(Option_None, NoInst) ELSE OptionS_Some(v)

\* map(fn)
OptionS_map(h, i, fn) ==
  IF Option_isNone(h[i])
    THEN SameV(i, h[i])
    ELSE LET v == Option_unwrap(h[i]).ret
         IN  [OptionS_Some(Apply(fn, v)) EXCEPT !.self = h[i], !.calls = FnCall(fn, v)]

\* --------------------------------------- class Result (result/result.ts)
Result_Ok(v) == [cls |-> "Result", tag |-> "Ok", value |-> v]
Result_Err(v) == [cls |-> "Result", tag |-> "Err", value |-> v]

Result_isOk(x) == x.tag = "Ok"
Result_isErr(x) == x.tag = "Err"

\* unwrap()
Result_unwrap(x) ==
  IF Result_isOk(x)
    THEN ReturnV(x.value, x)
    ELSE ThrowV("TypeError", "Trying to get a success value for Err", x)

\* Variant of unwrapErr that hands out the value of either variant.
Result_unwrapErr_anyVariant(x) == ReturnV(x.value, x)

\* unwrapErr()
Result_unwrapErr(x) ==
  IF Result_isErr(x)
    THEN ReturnV(x.value, x)
    ELSE ThrowV("TypeError", "Trying to get an error value for Ok", x)

\* unwrapOr(defaultValue)
Result_unwrapOr(x, defaultValue) ==
  IF Result_isOk(x) THEN Result_unwrap(x) ELSE ReturnV(defaultValue, x)

\* Result and Either import Some and None from option/mod.ts, which is not
\* among the sources.  Two versions of option/option.ts are: the one whose
\* Some wraps any value (option/utils.ts 20-157, "lenient") and the one
\* whose Some refuses null and undefined (unnamed/part_004, "strict").
\* Either may be the class behind mod.ts.
OptionBuilds == {"lenient", "strict"}

\* Some(value) as imported from option/mod.ts, with the given Option class
\* behind it.
Some_imported(build, v) ==
  IF build = "strict" THEN OptionS_Some(v) ELSE FreshV(Option_Some(v), NoInst)

\* get ok
Result_ok(x, build) ==
  IF Result_isOk(x)
    THEN [Some_imported(build, Result_unwrap(x).ret) EXCEPT !.self = x]
    ELSE SameV(SharedNone, x)

\* Variant of the error projection that ignores the variant.
Result_error_anyVariant(x, build) == [Some_imported(build, x.value) EXCEPT !.self = x]

\* get error
Result_error(x, build) ==
  IF Result_isErr(x)
    THEN [Some_imported(build, Result_unwrapErr(x).ret) EXCEPT !.self = x]
    ELSE SameV(SharedNone, x)

\* Variant of map that answers an Err with a copy of it.
Result_map_copiesErr(h, i, fn) ==
  IF Result_isErr(h[i])
    THEN FreshV(h[i], h[i])
    ELSE [FreshV(Result_Ok(Apply(fn, h[i].value)), h[i]) EXCEPT
            !.calls = FnCall(fn, h[i].value)]

\* map(fn)
Result_map(h, i, fn) ==
  IF Result_isErr(h[i])
    THEN SameV(i, h[i])
    ELSE LET v == Result_unwrap(h[i]).ret
         IN  [FreshV(Result_Ok(Apply(fn, v)), h[i]) EXCEPT !.calls = FnCall(fn, v)]

\* mapErr(fn)
Result_mapErr(h, i, fn) ==
  IF Result_isOk(h[i])
    THEN SameV(i, h[i])
    ELSE LET v == Result_unwrapErr(h[i]).ret
         IN  [FreshV(Result_Err(Apply(fn, v)), h[i]) EXCEPT !.calls = FnCall(fn, v)]

\* Variant of match that runs the Err handler after the Ok handler.
Result_match_bothHandlers(x, handlers) ==
  IF Result_isOk(x)
    THEN LET a == Invoke("Ok", handlers.Ok, <<x.value>>, x)
             b == Invoke("Err", handlers.Err, <<x.value>>, x)
         IN  [a EXCEPT !.calls = a.calls \o b.calls]
    ELSE Invoke("Err", handlers.Err, <<x.value>>, x)

\* match({ Ok, Err })
Result_match(x, handlers) ==
  IF Result_isOk(x)
    THEN Invoke("Ok", handlers.Ok, <<Result_unwrap(x).ret>>, x)
    ELSE Invoke("Err", handlers.Err, <<Result_unwrapErr(x).ret>>, x)

\* --------------------------------------- class Either (either/either.ts)
Either_Left(v) == [cls |-> "Either", tag |-> "Left", value |-> v]
Either_Right(v) == [cls |-> "Either", tag |-> "Right", value |-> v]

Either_isLeft(x) == x.tag = "Left"
Either_isRight(x) == x.tag = "Right"

\* Variant of the left projection that ignores the side.
Either_left_anySide(x, build) == [Some_imported(build, x.value) EXCEPT !.self = x]

\* unwrapLeft()
Either_unwrapLeft(x) ==
  IF Either_isLeft(x)
    THEN ReturnV(x.value, x)
    ELSE ThrowV("TypeError", "Trying to get a left value from Right", x)

\* unwrapRight()
Either_unwrapRight(x) ==
  IF Either_isRight(x)
    THEN ReturnV(x.value, x)
    ELSE ThrowV("TypeError", "Trying to get a left value from Left", x)

\* get left
Either_left(x, build) ==
  IF Either_isLeft(x)
    THEN [Some_imported(build, Either_unwrapLeft(x).ret) EXCEPT !.self = x]
    ELSE SameV(SharedNone, x)

\* get right
Either_right(x, build) ==
  IF Either_isRight(x)
    THEN [Some_imported(build, Either_unwrapRight(x).ret) EXCEPT !.self = x]
    ELSE SameV(SharedNone, x)

\* mapLeft(fn)
Either_mapLeft(h, i, fn) ==
  IF Either_isRight(h[i])
    THEN SameV(i, h[i])
    ELSE LET v == Either_unwrapLeft(h[i]).ret
         IN  [FreshV(Either_Left(Apply(fn, v)), h[i]) EXCEPT !.calls = FnCall(fn, v)]

\* mapRight(fn)
Either_mapRight(h, i, fn) ==
  IF Either_isLeft(h[i])
    THEN SameV(i, h[i])
    ELSE LET v == Either_unwrapRight(h[i]).ret
         IN  [FreshV(Either_Right(Apply(fn, v)), h[i]) EXCEPT !.calls = FnCall(fn, v)]

\* map(fn): applies fn to the value of either side
Either_map(h, i, fn) ==
  IF Either_isLeft(h[i])
    THEN LET v == Either_unwrapLeft(h[i]).ret
         IN  [FreshV(Either_Left(Apply(fn, v)), h[i]) EXCEPT !.calls = FnCall(fn, v)]
    ELSE LET v == Either_unwrapRight(h[i]).ret
         IN  [FreshV(Either_Right(Apply(fn, v)), h[i]) EXCEPT !.calls = FnCall(fn, v)]

\* match({ Left, Right })
Either_match(x, handlers) ==
  IF Either_isLeft(x)
    THEN Invoke("Left", handlers.Left, <<Either_unwrapLeft(x).ret>>, x)
    ELSE Invoke("Right", handlers.Right, <<Either_unwrapRight(x).ret>>, x)

\* ------------------------- Result.from and Result.fromAsync (result.ts)
\* Callbacks () => value handed to Result.from and Result.fromAsync: three
\* that return (1, 0, null) and two that throw (the string "some error",
\* an Error object).
ThunksR == {"retOne", "retZero", "retNull", "throws", "throwsError"}

ThunkRaises(t) == t \in {"throws", "throwsError"}

Raised(t) == IF t = "throws" THEN Str(10) ELSE [k |-> "Error", n |-> 0]

\* Variant of from that lets what fn throws escape.
Result_from_uncaught(fn) ==
  IF ThunkRaises(fn)
    THEN [EffectV(NoInst) EXCEPT !.outcome = "throw", !.err = "thrown",
                                 !.ret = Raised(fn), !.calls = <<[name |-> fn, args |-> <<>>]>>]
    ELSE [FreshV(Result_Ok(Run(fn)), NoInst) EXCEPT !.calls = <<[name |-> fn, args |-> <<>>]>>]

\* static from(fn), and static fromAsync(fn) once awaited: what fn returns
\* becomes the value of an Ok, what it throws becomes the cause of an Err.
Result_from(fn) ==
  IF ThunkRaises(fn)
    THEN [FreshV(Result_Err(Raised(fn)), NoInst) EXCEPT !.calls = <<[name |-> fn, args |-> <<>>]>>]
    ELSE [FreshV(Result_Ok(Run(fn)), NoInst) EXCEPT !.calls = <<[name |-> fn, args |-> <<>>]>>]

\* No call made on a container yet.
NoCallV ==
  [op |-> "init", self |-> 0, arg |-> Undefined, fn |-> "", first |-> "",
   second |-> "", outcome |-> "return", ret |-> Undefined, err |-> "",
   msg |-> "", calls |-> <<>>]

\* A call on a container: the operation, the receiver (0 for a static
\* call), the value argument, the callback, and the two handlers of match.
CallV(op, i) ==
  [op |-> op, self |-> i, arg |-> Undefined, fn |-> "", first |-> "", second |-> ""]

\* ------------------------------------------------------------ the client
\* A call: the operation, the receiver (0 for a static call), the value
\* argument, the callback argument and the message argument.
Call(op, o) == [op |-> op, self |-> o, arg |-> Undefined, fn |-> "", text |-> ""]

NoCall ==
  [op |-> "init", self |-> 0, arg |-> Undefined, fn |-> "", text |-> "",
   outcome |-> "return", ret |-> Undefined, err |-> "", msg |-> "",
   fnCalls |-> 0, fnArg |-> Undefined]

Init ==
  /\ value = [o \in Objs |-> Free]
  /\ nOpt = 0
  /\ taken = [o \in Objs |-> 0]
  /\ last = NoCall
  /\ tick = 0
  /\ variant = [i \in Insts |-> IF i = SharedNone THEN Option_None ELSE NoInst]
  /\ nInst = 1
  /\ seen = NoCallV
  /\ turn = 0
  /\ pending = EmptyBag

\* The values a client can pass: primitives and the instances it holds.
Values == Primitives \cup {Ref(o) : o \in Live}

\* The call c with effect e takes place: the receiver's #value is updated, a
\* fresh instance is placed in the next free slot, and the caller observes
\* the outcome.
Do(c, e) ==
  /\ e.fresh => nOpt < MaxObj
  /\ nOpt' = IF e.fresh THEN nOpt + 1 ELSE nOpt
  /\ value' = [s \in Objs |->
                 IF e.fresh /\ s = nOpt + 1 THEN e.value
                 ELSE IF s = c.self THEN e.self
                 ELSE value[s]]
  /\ taken' = [s \in Objs |->
                 IF s = c.self /\ c.op \in {"unwrap", "expect"} /\ e.outcome = "return"
                   THEN taken[s] + 1
                   ELSE taken[s]]
  /\ last' = [op |-> c.op, self |-> c.self, arg |-> c.arg, fn |-> c.fn,
              text |-> c.text, outcome |-> e.outcome,
              ret |-> IF e.fresh THEN Ref(nOpt + 1)
                      ELSE IF e.same # 0 THEN Ref(e.same)
                      ELSE e.ret,
              err |-> e.err, msg |-> e.msg,
              fnCalls |-> e.fnCalls, fnArg |-> e.fnArg]
  /\ tick' = 1 - tick
  /\ pending' = PendingAfter(c)
  /\ UNCHANGED variantVars

CallSome ==
  \E v \in Values :
    Do([Call("Some", 0) EXCEPT !.arg = v], Fresh(Some(v), Free))

CallNone ==
  /\ nOpt < MaxObj
  /\ Do(Call("None", 0), Fresh(None, Free))

CallFrom ==
  /\ nOpt \in 0..MaxObj
  /\ \E fn \in Thunks : Do([Call("from", 0) EXCEPT !.fn = fn], from(fn))

\* p = Option.fromAsync(fn): fn is called and the caller gets a promise;
\* nothing is constructed yet.
CallFromAsync ==
  /\ BagCardinality(pending) < MaxPending
  /\ \E fn \in Thunks :
       Do([Call("fromAsync", 0) EXCEPT !.fn = fn],
          [Return([k |-> "promise", n |-> 0], Free) EXCEPT !.fnCalls = 1])

\* await p: fn's promise has settled and fromAsync resumes; the Option is
\* constructed now, or the promise of fromAsync rejects.
AwaitFromAsync ==
  \E fn \in BagToSet(pending) :
    Do([Call("await fromAsync", 0) EXCEPT !.fn = fn], fromAsync(fn))

CallIsSome ==
  \E o \in Live :
    Do(Call("isSome", o), Return(Bool(isSome(value[o])), value[o]))

CallIsNone ==
  \E o \in Live :
    Do(Call("isNone", o), Return(Bool(isNone(value[o])), value[o]))

CallPeek ==
  \E o \in Live : Do(Call("peek", o), Return(peek(value[o]), value[o]))

CallUnwrap ==
  \E o \in Live : Do(Call("unwrap", o), unwrap(value[o]))

CallExpect ==
  \E o \in Live, m \in Messages :
    Do([Call("expect", o) EXCEPT !.text = m], expect(value[o], m))

CallUnwrapOr ==
  \E o \in Live, d \in Defaults :
    Do([Call("unwrapOr", o) EXCEPT !.arg = d], unwrapOr(value[o], d))

CallUnwrapOrElse ==
  \E o \in Live, fn \in Thunks :
    Do([Call("unwrapOrElse", o) EXCEPT !.fn = fn], unwrapOrElse(value[o], fn))

CallOr ==
  \E o \in Live, other \in Live :
    Do([Call("or", o) EXCEPT !.arg = Ref(other)], or(value, o, other))

CallFlatten ==
  \E o \in Live : Do(Call("flatten", o), flatten(value, o))

CallMap ==
  \E o \in Live, fn \in Fns :
    /\ isSome(value[o]) => FnOk(fn, value[o])
    /\ Do([Call("map", o) EXCEPT !.fn = fn], map(value, o, fn))

CallMapOr ==
  \E o \in Live, a \in MapOrArgs :
    /\ isSome(value[o]) => FnOk(a[2], value[o])
    /\ Do([Call("mapOr", o) EXCEPT !.arg = a[1], !.fn = a[2]],
          mapOr(value, o, a[1], a[2]))

Next ==
  \/ CallSome
  \/ CallNone
  \/ CallFrom
  \/ CallIsSome
  \/ CallIsNone
  \/ CallPeek
  \/ CallUnwrap
  \/ CallExpect
  \/ CallUnwrapOr
  \/ CallUnwrapOrElse
  \/ CallOr
  \/ CallFlatten
  \/ CallMap
  \/ CallMapOr

Spec == Init /\ [][Next]_vars

\* The helpers and the instanceof tests, applied to a live Option or to a
\* value that is not an Option.
CallIsSomeHelper ==
  \E v \in {Ref(o) : o \in Live} \cup NonOptions :
    Do([Call("isSome()", 0) EXCEPT !.arg = v], Return(Bool(isSome_helper(value, v)), Free))

CallIsNoneHelper ==
  \E v \in {Ref(o) : o \in Live} \cup NonOptions :
    Do([Call("isNone()", 0) EXCEPT !.arg = v], Return(Bool(isNone_helper(value, v)), Free))

CallInstanceofSome ==
  \E v \in {Ref(o) : o \in Live} \cup NonOptions :
    Do([Call("instanceof Some", 0) EXCEPT !.arg = v],
       Return(Bool(Some_hasInstance(value, v)), Free))

CallInstanceofNone ==
  \E v \in {Ref(o) : o \in Live} \cup NonOptions :
    Do([Call("instanceof None", 0) EXCEPT !.arg = v],
       Return(Bool(None_hasInstance(value, v)), Free))

\* The client of fromAsync: between the call and the await it makes and
\* reads other Options.
NextA ==
  \/ CallSome
  \/ CallNone
  \/ CallFrom
  \/ CallFromAsync
  \/ AwaitFromAsync
  \/ CallPeek
  \/ CallUnwrap

SpecA == Init /\ [][NextA]_vars

\* The client of the helper functions: it makes Options, unwraps them, and
\* applies the helpers and the instanceof tests.
NextH ==
  \/ CallSome
  \/ CallNone
  \/ CallUnwrap
  \/ CallIsSome
  \/ CallIsNone
  \/ CallIsSomeHelper
  \/ CallIsNoneHelper
  \/ CallInstanceofSome
  \/ CallInstanceofNone

SpecH == Init /\ [][NextH]_vars

\* ------------------------------------------- the client of the containers
\* Payloads the client wraps: null, 1, "a".
Payloads == {Null, Num(1), Str(1)}

\* Callbacks the client hands to map, mapErr, mapLeft and mapRight.
MapFns == {"dec", "toA", "constNull"}

\* Pairs of handlers the client hands to match, in the order in which the
\* class names its variants.
HandlerPairs ==
  {<<"echo", "UNREACHABLE">>, <<"UNREACHABLE", "echo">>, <<"constA", "constB">>}

\* The call c with effect e takes place on the heap of containers.
DoV(c, e) ==
  /\ e.fresh => nInst < MaxInst
  /\ nInst' = IF e.fresh THEN nInst + 1 ELSE nInst
  /\ variant' = [s \in Insts |->
                   IF e.fresh /\ s = nInst + 1 THEN e.made
                   ELSE IF s = c.self THEN e.self
                   ELSE variant[s]]
  /\ seen' = [op |-> c.op, self |-> c.self, arg |-> c.arg, fn |-> c.fn,
              first |-> c.first, second |-> c.second, outcome |-> e.outcome,
              ret |-> IF e.fresh THEN Inst(nInst + 1)
                      ELSE IF e.same # 0 THEN Inst(e.same)
                      ELSE e.ret,
              err |-> e.err, msg |-> e.msg, calls |-> e.calls]
  /\ turn' = 1 - turn
  /\ pending' = PendingAfter(c)
  /\ UNCHANGED optionVars

\* The containers of class cls constructed so far.
Of(cls) == {i \in LiveInsts : variant[i].cls = cls}

CallOptionSome ==
  /\ nInst < MaxInst
  /\ \E v \in Payloads :
       DoV([CallV("Option.Some", 0) EXCEPT !.arg = v], FreshV(Option_Some(v), NoInst))

CallOptionNone ==
  /\ nInst < MaxInst
  /\ DoV(CallV("Option.None", 0), FreshV(Option_None, NoInst))

CallOptionUnwrap ==
  \E i \in Of("Option") : DoV(CallV("Option.unwrap", i), Option_unwrap(variant[i]))

CallOptionUnwrapOr ==
  \E i \in Of("Option"), d \in Payloads :
    DoV([CallV("Option.unwrapOr", i) EXCEPT !.arg = d], Option_unwrapOr(variant[i], d))

CallOptionMap ==
  \E i \in Of("Option"), fn \in MapFns :
    /\ Option_isSome(variant[i]) => FnOk(fn, variant[i].value)
    /\ DoV([CallV("Option.map", i) EXCEPT !.fn = fn], Option_map(variant, i, fn))

CallOptionMatch ==
  \E i \in Of("Option"), hp \in HandlerPairs :
    DoV([CallV("Option.match", i) EXCEPT !.first = hp[1], !.second = hp[2]],
        Option_match(variant[i], [Some |-> hp[1], None |-> hp[2]]))

CallResultOk ==
  /\ nInst < MaxInst
  /\ \E v \in Payloads :
       DoV([CallV("Result.Ok", 0) EXCEPT !.arg = v], FreshV(Result_Ok(v), NoInst))

CallResultErr ==
  /\ nInst < MaxInst
  /\ \E v \in Payloads :
       DoV([CallV("Result.Err", 0) EXCEPT !.arg = v], FreshV(Result_Err(v), NoInst))

CallResultIsOk ==
  \E i \in Of("Result") :
    DoV(CallV("Result.isOk", i), ReturnV(Bool(Result_isOk(variant[i])), variant[i]))

CallResultIsErr ==
  \E i \in Of("Result") :
    DoV(CallV("Result.isErr", i), ReturnV(Bool(Result_isErr(variant[i])), variant[i]))

CallResultUnwrap ==
  \E i \in Of("Result") : DoV(CallV("Result.unwrap", i), Result_unwrap(variant[i]))

CallResultUnwrapErr ==
  \E i \in Of("Result") :
    DoV(CallV("Result.unwrapErr", i), Result_unwrapErr(variant[i]))

CallResultUnwrapOr ==
  \E i \in Of("Result"), d \in Payloads :
    DoV([CallV("Result.unwrapOr", i) EXCEPT !.arg = d], Result_unwrapOr(variant[i], d))

CallResultGetOk ==
  \E i \in Of("Result"), build \in OptionBuilds :
    DoV(CallV("Result.ok", i), Result_ok(variant[i], build))

CallResultGetError ==
  \E i \in Of("Result"), build \in OptionBuilds :
    DoV(CallV("Result.error", i), Result_error(variant[i], build))

CallResultMap ==
  \E i \in Of("Result"), fn \in MapFns :
    /\ Result_isOk(variant[i]) => FnOk(fn, variant[i].value)
    /\ DoV([CallV("Result.map", i) EXCEPT !.fn = fn], Result_map(variant, i, fn))

CallResultMapErr ==
  \E i \in Of("Result"), fn \in MapFns :
    /\ Result_isErr(variant[i]) => FnOk(fn, variant[i].value)
    /\ DoV([CallV("Result.mapErr", i) EXCEPT !.fn = fn], Result_mapErr(variant, i, fn))

CallResultMatch ==
  \E i \in Of("Result"), hp \in HandlerPairs :
    DoV([CallV("Result.match", i) EXCEPT !.first = hp[1], !.second = hp[2]],
        Result_match(variant[i], [Ok |-> hp[1], Err |-> hp[2]]))

CallEitherLeft ==
  /\ nInst < MaxInst
  /\ \E v \in Payloads :
       DoV([CallV("Either.Left", 0) EXCEPT !.arg = v], FreshV(Either_Left(v), NoInst))

CallEitherRight ==
  /\ nInst < MaxInst
  /\ \E v \in Payloads :
       DoV([CallV("Either.Right", 0) EXCEPT !.arg = v], FreshV(Either_Right(v), NoInst))

CallEitherUnwrapLeft ==
  \E i \in Of("Either") :
    DoV(CallV("Either.unwrapLeft", i), Either_unwrapLeft(variant[i]))

CallEitherUnwrapRight ==
  \E i \in Of("Either") :
    DoV(CallV("Either.unwrapRight", i), Either_unwrapRight(variant[i]))

CallEitherGetLeft ==
  \E i \in Of("Either"), build \in OptionBuilds :
    DoV(CallV("Either.left", i), Either_left(variant[i], build))

CallEitherGetRight ==
  \E i \in Of("Either"), build \in OptionBuilds :
    DoV(CallV("Either.right", i), Either_right(variant[i], build))

CallEitherMapLeft ==
  \E i \in Of("Either"), fn \in MapFns :
    /\ Either_isLeft(variant[i]) => FnOk(fn, variant[i].value)
    /\ DoV([CallV("Either.mapLeft", i) EXCEPT !.fn = fn], Either_mapLeft(variant, i, fn))

CallEitherMapRight ==
  \E i \in Of("Either"), fn \in MapFns :
    /\ Either_isRight(variant[i]) => FnOk(fn, variant[i].value)
    /\ DoV([CallV("Either.mapRight", i) EXCEPT !.fn = fn], Either_mapRight(variant, i, fn))

CallEitherMap ==
  \E i \in Of("Either"), fn \in MapFns :
    /\ FnOk(fn, variant[i].value)
    /\ DoV([CallV("Either.map", i) EXCEPT !.fn = fn], Either_map(variant, i, fn))

CallEitherMatch ==
  \E i \in Of("Either"), hp \in HandlerPairs :
    DoV([CallV("Either.match", i) EXCEPT !.first = hp[1], !.second = hp[2]],
        Either_match(variant[i], [Left |-> hp[1], Right |-> hp[2]]))

NextV ==
  \/ CallOptionSome
  \/ CallOptionNone
  \/ CallOptionUnwrap
  \/ CallOptionUnwrapOr
  \/ CallOptionMap
  \/ CallOptionMatch
  \/ CallResultOk
  \/ CallResultErr
  \/ CallResultIsOk
  \/ CallResultIsErr
  \/ CallResultUnwrap
  \/ CallResultUnwrapErr
  \/ CallResultUnwrapOr
  \/ CallResultGetOk
  \/ CallResultGetError
  \/ CallResultMap
  \/ CallResultMapErr
  \/ CallResultMatch
  \/ CallEitherLeft
  \/ CallEitherRight
  \/ CallEitherUnwrapLeft
  \/ CallEitherUnwrapRight
  \/ CallEitherGetLeft
  \/ CallEitherGetRight
  \/ CallEitherMapLeft
  \/ CallEitherMapRight
  \/ CallEitherMap
  \/ CallEitherMatch

SpecV == Init /\ [][NextV]_vars

\* ----------------------------------------- the client of the strict Option
\* The client passes null, undefined, false, 0, "", 1 and "a" to Some and
\* from, and callbacks that return a number, a string, null or undefined
\* to map.
CallStrictSome ==
  /\ nInst < MaxInst
  /\ \E v \in Payloads \cup {Undefined, Bool(FALSE), Num(0), Str(0)} :
       DoV([CallV("OptionS.Some", 0) EXCEPT !.arg = v], OptionS_Some(v))

CallStrictFrom ==
  /\ nInst < MaxInst
  /\ \E v \in Payloads \cup {Undefined, Bool(FALSE), Num(0), Str(0)} :
       DoV([CallV("OptionS.from", 0) EXCEPT !.arg = v], OptionS_from(v))

CallStrictMap ==
  \E i \in Of("Option"), fn \in MapFns \cup {"constUndefined"} :
    /\ Option_isSome(variant[i]) => FnOk(fn, variant[i].value)
    /\ DoV([CallV("OptionS.map", i) EXCEPT !.fn = fn], OptionS_map(variant, i, fn))

NextS ==
  \/ CallStrictSome
  \/ CallStrictFrom
  \/ CallStrictMap
  \/ CallOptionNone
  \/ CallOptionUnwrap
  \/ CallOptionUnwrapOr
  \/ CallOptionMatch

SpecS == Init /\ [][NextS]_vars

\* ------------------------- the client of Result.from and Result.fromAsync
CallResultFrom ==
  /\ nInst < MaxInst
  /\ \E fn \in ThunksR :
       DoV([CallV("Result.from", 0) EXCEPT !.fn = fn], Result_from(fn))

\* p = Result.fromAsync(fn): fn is called and the caller gets a promise;
\* nothing is constructed yet.
CallResultFromAsync ==
  /\ BagCardinality(pending) < MaxPending
  /\ \E fn \in ThunksR :
       DoV([CallV("Result.fromAsync", 0) EXCEPT !.fn = fn],
           [ReturnV([k |-> "promise", n |-> 0], NoInst) EXCEPT
              !.calls = <<[name |-> fn, args |-> <<>>]>>])

\* await p: fn's promise has settled and fromAsync resumes; the Result is
\* constructed now from the value or from the rejection.
AwaitResultFromAsync ==
  \E fn \in BagToSet(pending) :
    DoV([CallV("await Result.fromAsync", 0) EXCEPT !.fn = fn],
        [Result_from(fn) EXCEPT !.calls = <<>>])

\* The client of Result.from and Result.fromAsync: between the call and the
\* await it makes and reads other Results.
NextRA ==
  \/ CallResultOk
  \/ CallResultFrom
  \/ CallResultFromAsync
  \/ AwaitResultFromAsync
  \/ CallResultIsOk
  \/ CallResultUnwrap
  \/ CallResultUnwrapErr

SpecRA == Init /\ [][NextRA]_vars

\* ----------------------------------------------------------------- claims
\* The values Option.Some treats as absent by its documentation.
Absent == {Null, Undefined, none}

\* C1: unwrap-once.  A call of unwrap on an instance that is Some returns the
\* contained value, and it is the first read of that instance to succeed; a
\* call of unwrap on an instance whose payload an earlier read returned
\* throws a ReferenceError.
C1_UnwrapOnce ==
  [][last'.op = "unwrap" =>
       LET o == last'.self IN
         /\ isSome(value[o]) =>
              /\ last'.outcome = "return"
              /\ last'.ret = value[o]
              /\ taken[o] = 0
         /\ taken[o] >= 1 =>
              /\ last'.outcome = "throw"
              /\ last'.err = "ReferenceError"]_vars

\* A second unwrap threw on an instance whose first unwrap had returned.
C1_Witness ==
  /\ last.op = "unwrap"
  /\ last.outcome = "throw"
  /\ taken[last.self] = 1

\* C2: for every v other than null, undefined and `none`, the instance that
\* Option.Some(v) returns is Some, is not None, and its unwrap returns v.
C2_SomeOfPresent ==
  (last.op = "Some" /\ last.arg \notin Absent) =>
    LET nv == value[last.ret.n] IN
      /\ isSome(nv)
      /\ ~isNone(nv)
      /\ unwrap(nv).outcome = "return"
      /\ unwrap(nv).ret = last.arg

\* C3: for v null, undefined or `none`, the instance that Option.Some(v)
\* returns is None, is not Some, peeks as `none`, and its unwrap throws.
C3_SomeOfAbsent ==
  (last.op = "Some" /\ last.arg \in Absent) =>
    LET nv == value[last.ret.n] IN
      /\ isNone(nv)
      /\ ~isSome(nv)
      /\ peek(nv) = none
      /\ unwrap(nv).outcome = "throw"

\* Option.Some(null) has returned an instance.
C3_Witness ==
  /\ last.op = "Some"
  /\ last.arg = Null
  /\ last.ret.n \in Live
  /\ isNone(value[last.ret.n])

\* C4: the lifecycle is irreversible.  In every call, an instance that is
\* None stays None, an instance whose #value changes goes from Some to None,
\* a returning unwrap or expect is the first one to return on its instance,
\* and so no instance ever has more than one returning consuming read.
C4_Irreversible ==
  [][/\ \A o \in Live :
          /\ isNone(value[o]) => isNone(value'[o])
          /\ value'[o] # value[o] => isSome(value[o]) /\ isNone(value'[o])
          /\ taken'[o] <= 1
     /\ (last'.op \in {"unwrap", "expect"} /\ last'.outcome = "return") =>
          /\ taken[last'.self] = 0
          /\ isNone(value'[last'.self])]_vars

\* A consuming read returned the payload of an instance, and a later call of
\* another operation on that instance found it None.
C4_Witness ==
  /\ last.op \in {"map", "mapOr", "or", "flatten", "unwrapOr", "unwrapOrElse"}
  /\ taken[last.self] = 1
  /\ isNone(value[last.self])

\* C5: a call of unwrap on an instance that is None throws a ReferenceError
\* and changes nothing: no #value changes, no instance is constructed, and
\* the instance still peeks as `none`.
C5_UnwrapOfNone ==
  [][(last'.op = "unwrap" /\ isNone(value[last'.self])) =>
       /\ last'.outcome = "throw"
       /\ last'.err = "ReferenceError"
       /\ value' = value
       /\ nOpt' = nOpt
       /\ peek(value'[last'.self]) = none]_vars

\* unwrap threw on an instance that was constructed None: no read of it has
\* ever returned.
C5_Witness ==
  /\ last.op = "unwrap"
  /\ last.outcome = "throw"
  /\ last.err = "ReferenceError"
  /\ taken[last.self] = 0
  /\ isNone(value[last.self])

\* C6 as stated: unwrapOr and unwrapOrElse (with a callback that returns)
\* return the payload of a Some and the fallback of a None, and leave the
\* instance's #value as it was.
C6_UnwrapOrReadOnly ==
  [][(last'.op \in {"unwrapOr", "unwrapOrElse"} /\ ~ThunkThrows(last'.fn)) =>
       LET o == last'.self IN
         /\ last'.outcome = "return"
         /\ isSome(value[o]) => last'.ret = value[o]
         /\ (isNone(value[o]) /\ last'.op = "unwrapOr") => last'.ret = last'.arg
         /\ (isNone(value[o]) /\ last'.op = "unwrapOrElse") => last'.ret = Run(last'.fn)
         /\ value'[o] = value[o]]_vars

\* C6 amended: unwrapOr and unwrapOrElse (with a callback that returns)
\* return the payload of a Some and the fallback of a None; on a None they
\* change nothing; on a Some they consume the instance, which is None after
\* the call, so that a later unwrap on it throws.
C6_UnwrapOrConsumes ==
  [][(last'.op \in {"unwrapOr", "unwrapOrElse"} /\ ~ThunkThrows(last'.fn)) =>
       LET o == last'.self IN
         /\ last'.outcome = "return"
         /\ isSome(value[o]) =>
              /\ last'.ret = value[o]
              /\ isNone(value'[o])
              /\ unwrap(value'[o]).outcome = "throw"
         /\ isNone(value[o]) =>
              /\ last'.op = "unwrapOr" => last'.ret = last'.arg
              /\ last'.op = "unwrapOrElse" => last'.ret = Run(last'.fn)
              /\ value'[o] = value[o]
         /\ \A s \in Objs : s # o => value'[s] = value[s]
         /\ nOpt' = nOpt]_vars

\* unwrapOr returned the payload 1 (not its fallback 0) and left the
\* instance None.
C6_Witness ==
  /\ last.op = "unwrapOr"
  /\ last.arg = Num(0)
  /\ last.ret = Num(1)
  /\ isNone(value[last.self])

\* C7: map on a Some calls fn once with the payload and returns a new
\* instance, distinct from the receiver, that holds fn's result, or is None
\* if that result is null, undefined or `none`; the receiver keeps its
\* payload, and so does every other instance.
C7_MapOfSome ==
  [][(last'.op = "map" /\ isSome(value[last'.self])) =>
       LET o == last'.self
           r == Apply(last'.fn, value[o])
           m == last'.ret.n
       IN  /\ last'.outcome = "return"
           /\ last'.fnCalls = 1
           /\ last'.fnArg = value[o]
           /\ m # o
           /\ m \notin Live
           /\ m \in 1..nOpt'
           /\ value'[m] = IF r \in Absent THEN none ELSE r
           /\ \A s \in Live : value'[s] = value[s]]_vars

\* C8: map on a None does not invoke fn and returns the receiver itself,
\* which is still None; nothing is constructed and nothing changes.
C8_MapOfNone ==
  [][(last'.op = "map" /\ isNone(value[last'.self])) =>
       /\ last'.outcome = "return"
       /\ last'.fnCalls = 0
       /\ last'.ret = Ref(last'.self)
       /\ isNone(value'[last'.self])
       /\ nOpt' = nOpt
       /\ value' = value]_vars

\* map returned the receiver, an instance that had become None through a
\* consuming read.
C8_Witness ==
  /\ last.op = "map"
  /\ last.ret = Ref(last.self)
  /\ last.fnCalls = 0
  /\ taken[last.self] = 1

\* C9: expect(message) is a consuming read.  On a Some it returns the
\* payload and leaves the instance None, so that a further expect throws; on
\* a None it throws a ReferenceError whose message is the one passed in, and
\* changes nothing.
C9_Expect ==
  [][last'.op = "expect" =>
       LET o == last'.self IN
         IF isSome(value[o])
           THEN /\ last'.outcome = "return"
                /\ last'.ret = value[o]
                /\ isNone(value'[o])
                /\ expect(value'[o], last'.text).outcome = "throw"
           ELSE /\ last'.outcome = "throw"
                /\ last'.err = "ReferenceError"
                /\ last'.msg = last'.text
                /\ value' = value]_vars

\* A second expect threw the caller's message on an instance whose payload
\* an earlier consuming read had returned.
C9_Witness ==
  /\ last.op = "expect"
  /\ last.outcome = "throw"
  /\ last.text = "There is no value in the Option"
  /\ last.msg = last.text
  /\ taken[last.self] = 1

\* C10: peek, isSome and isNone change nothing, whether the instance is Some
\* or None: peek returns the payload of a Some and `none` of a None, isSome
\* and isNone tell the two apart, and every #value is as it was.
C10_ReadOnlyGetters ==
  [][last'.op \in {"peek", "isSome", "isNone"} =>
       LET o == last'.self IN
         /\ last'.outcome = "return"
         /\ value' = value
         /\ nOpt' = nOpt
         /\ taken' = taken
         /\ last'.op = "peek" =>
              last'.ret = IF value[o] = none THEN none ELSE value[o]
         /\ last'.op = "isSome" => last'.ret = Bool(value[o] # none)
         /\ last'.op = "isNone" => last'.ret = Bool(value[o] = none)]_vars

\* peek returned `none` on an instance that a consuming read had emptied.
C10_Witness ==
  /\ last.op = "peek"
  /\ last.ret = none
  /\ taken[last.self] = 1

\* The instance met after following the payloads of nested Options from o
\* for as many levels as there are instances.
Innermost(h, o) ==
  LET down[i \in 0..MaxObj] ==
        IF i = 0 THEN o
        ELSE IF h[down[i - 1]].k = "option" THEN h[down[i - 1]].n
        ELSE down[i - 1]
  IN  down[MaxObj]

\* C11: flatten collapses any depth of nesting.  It returns the instance at
\* the bottom of the nesting, whose payload is not an Option: a consuming
\* read of it yields the non-Option payload v, or it is a None that was met
\* on the way down.  On an instance whose payload is not an Option, and on
\* a None, it returns the receiver itself.  Nothing is constructed or
\* changed.
C11_Flatten ==
  [][last'.op = "flatten" =>
       LET o == last'.self
           f == Innermost(value, o)
       IN  /\ last'.outcome = "return"
           /\ last'.ret = Ref(f)
           /\ value[f].k # "option"
           /\ isSome(value[f]) =>
                /\ unwrap(value'[f]).outcome = "return"
                /\ unwrap(value'[f]).ret = value[f]
           /\ value[o].k # "option" => last'.ret = Ref(o)
           /\ value' = value
           /\ nOpt' = nOpt]_vars

\* flatten went down two levels of nesting and returned the innermost
\* instance, a Some of a payload that is not an Option.
C11_Witness ==
  /\ last.op = "flatten"
  /\ value[last.self].k = "option"
  /\ value[value[last.self].n].k = "option"
  /\ last.ret = Ref(value[value[last.self].n].n)
  /\ isSome(value[last.ret.n])

\* C12: a.or(b) returns the instance a itself when a is Some at the time of
\* the call and the instance b itself otherwise; an instance that was Some
\* and whose payload a consuming read has since returned yields b.  Neither
\* instance is changed.
C12_Or ==
  [][last'.op = "or" =>
       LET a == last'.self
           b == last'.arg
       IN  /\ last'.outcome = "return"
           /\ last'.ret = IF value[a] # none THEN Ref(a) ELSE b
           /\ taken[a] > 0 => last'.ret = b
           /\ value' = value
           /\ nOpt' = nOpt]_vars

\* or returned the other instance for a receiver that had been constructed
\* as a Some and was emptied by a consuming read before the call.
C12_Witness ==
  /\ last.op = "or"
  /\ taken[last.self] = 1
  /\ last.arg # Ref(last.self)
  /\ last.ret = last.arg
  /\ isSome(value[last.arg.n])

\* C13: mapOr(fallback, fn) never consumes its receiver and returns a new
\* Option.  On a Some the new Option is a Some holding fn(payload); on a
\* None fn is not invoked and, for every fallback that is not absent, the
\* new Option is a Some holding the fallback.
C13_MapOr ==
  [][last'.op = "mapOr" =>
       LET o == last'.self
           r == last'.ret
       IN  /\ last'.outcome = "return"
           /\ value'[o] = value[o]
           /\ r = Ref(nOpt + 1)
           /\ nOpt' = nOpt + 1
           /\ IF isSome(value[o])
                THEN Apply(last'.fn, value[o]) \notin Absent =>
                       /\ isSome(value'[r.n])
                       /\ value'[r.n] = Apply(last'.fn, value[o])
                ELSE /\ last'.fnCalls = 0
                     /\ last'.arg \notin Absent =>
                          /\ isSome(value'[r.n])
                          /\ value'[r.n] = last'.arg]_vars

\* C14: match is total and exclusive on Option, Result and Either.  Every
\* call runs exactly one handler, the one named after the variant the
\* container has, with the contained value as its only argument (no argument
\* for None); the other handler is not run; what the handler returns is what
\* match returns (and what it throws is what match throws).  The container
\* is left as it was.
C14_Match ==
  [][seen'.op \in {"Option.match", "Result.match", "Either.match"} =>
       LET x == variant[seen'.self]
           h == IF x.tag \in {"Some", "Ok", "Left"} THEN seen'.first ELSE seen'.second
           args == IF x.tag = "None" THEN <<>> ELSE <<x.value>>
       IN  /\ Len(seen'.calls) = 1
           /\ seen'.calls[1].name = x.tag
           /\ seen'.calls[1].args = args
           /\ IF h = "UNREACHABLE"
                THEN seen'.outcome = "throw" /\ seen'.msg = "UNREACHABLE"
                ELSE seen'.outcome = "return" /\ seen'.ret = HandlerResult(h, args)
           /\ variant' = variant
           /\ nInst' = nInst]_vars

\* match on an Err Result ran the Err handler with the error value and
\* returned what it returned, the Ok handler being one that throws.
C14_Witness ==
  /\ seen.op = "Result.match"
  /\ variant[seen.self].tag = "Err"
  /\ seen.first = "UNREACHABLE"
  /\ seen.second = "echo"
  /\ seen.outcome = "return"
  /\ seen.ret = variant[seen.self].value
  /\ seen.calls = <<[name |-> "Err", args |-> <<seen.ret>>]>>

\* C15: Result has the consuming-read lifecycle of Option.  An unwrap on an
\* Ok returns the success value and consumes the instance: it no longer
\* reports isOk and a further unwrap on it throws.  An unwrapErr on an Err
\* returns the cause, and a further unwrapErr on it throws.
C15_ResultLifecycle ==
  [][LET i == seen'.self IN
       /\ (seen'.op = "Result.unwrap" /\ Result_isOk(variant[i])) =>
            /\ seen'.outcome = "return"
            /\ seen'.ret = variant[i].value
            /\ ~Result_isOk(variant'[i])
            /\ Result_unwrap(variant'[i]).outcome = "throw"
       /\ (seen'.op = "Result.unwrapErr" /\ Result_isErr(variant[i])) =>
            /\ seen'.outcome = "return"
            /\ seen'.ret = variant[i].value
            /\ Result_unwrapErr(variant'[i]).outcome = "throw"]_vars

\* C16: on an Ok Result, unwrapOr(default) returns the success value and
\* consumes the instance, so that a later unwrap on it throws; on an Err it
\* returns the default.  (unwrapOrElse, of which the claim says the same,
\* is not a method of the class.)
C16_ResultUnwrapOr ==
  [][LET i == seen'.self IN
       seen'.op = "Result.unwrapOr" =>
         /\ seen'.outcome = "return"
         /\ IF Result_isOk(variant[i])
              THEN /\ seen'.ret = variant[i].value
                   /\ Result_unwrap(variant'[i]).outcome = "throw"
              ELSE seen'.ret = seen'.arg]_vars

\* C17: reading the wrong channel of a Result fails and returns no value:
\* unwrap on an Err throws, unwrapErr on an Ok throws (a TypeError each), and
\* the failed read leaves variant and payload as they were, so that
\* unwrapErr on that Err, respectively unwrap on that Ok, still returns the
\* stored value.
C17_WrongChannel ==
  [][LET i == seen'.self
         x == variant[i]
     IN  /\ (seen'.op = "Result.unwrap" /\ Result_isErr(x)) =>
              /\ seen'.outcome = "throw"
              /\ seen'.err = "TypeError"
              /\ variant' = variant
              /\ Result_unwrapErr(variant'[i]).outcome = "return"
              /\ Result_unwrapErr(variant'[i]).ret = x.value
         /\ (seen'.op = "Result.unwrapErr" /\ Result_isOk(x)) =>
              /\ seen'.outcome = "throw"
              /\ seen'.err = "TypeError"
              /\ variant' = variant
              /\ Result_unwrap(variant'[i]).outcome = "return"
              /\ Result_unwrap(variant'[i]).ret = x.value]_vars

\* unwrapErr threw on an Ok Result, which still holds its success value.
C17_Witness ==
  /\ seen.op = "Result.unwrapErr"
  /\ seen.outcome = "throw"
  /\ seen.msg = "Trying to get an error value for Ok"
  /\ variant[seen.self] = Result_Ok(Num(1))

\* C18, as claimed: the projections of a Result into Option.  Ok(x).ok is
\* a Some that holds x and Ok(x).error is a None; Err(e).error is a Some
\* that holds e and Err(e).ok is a None; this for every x and e, null
\* included.  Taking a projection changes neither the Result nor any other
\* container.
C18_ProjectionsOfAny ==
  [][seen'.op \in {"Result.ok", "Result.error"} =>
       LET i == seen'.self
           x == variant[i]
           r == seen'.ret
           matching == \/ seen'.op = "Result.ok" /\ Result_isOk(x)
                       \/ seen'.op = "Result.error" /\ Result_isErr(x)
       IN  /\ seen'.outcome = "return"
           /\ r.k = "instance"
           /\ r.n \in 1..nInst'
           /\ variant'[r.n].cls = "Option"
           /\ IF matching
                THEN /\ Option_isSome(variant'[r.n])
                     /\ Option_unwrap(variant'[r.n]).outcome = "return"
                     /\ Option_unwrap(variant'[r.n]).ret = x.value
                ELSE Option_isNone(variant'[r.n])
           /\ \A s \in LiveInsts : variant'[s] = variant[s]]_vars

\* C18, amended: Ok(x).error and Err(e).ok are a None.  Ok(x).ok and
\* Err(e).error are a new Some that holds x, respectively e, when the value
\* is neither null nor undefined; when it is, the projection either is a
\* new Some holding it or throws a TypeError and constructs nothing,
\* according to the Option class behind option/mod.ts.  Taking a
\* projection, also one that throws, changes neither the Result nor any
\* other container.
C18_Projections ==
  [][seen'.op \in {"Result.ok", "Result.error"} =>
       LET i == seen'.self
           x == variant[i]
           r == seen'.ret
           matching == \/ seen'.op = "Result.ok" /\ Result_isOk(x)
                       \/ seen'.op = "Result.error" /\ Result_isErr(x)
           aSome == /\ seen'.outcome = "return"
                    /\ r = Inst(nInst + 1)
                    /\ nInst' = nInst + 1
                    /\ variant'[r.n].cls = "Option"
                    /\ Option_isSome(variant'[r.n])
                    /\ Option_unwrap(variant'[r.n]).outcome = "return"
                    /\ Option_unwrap(variant'[r.n]).ret = x.value
           refused == /\ seen'.outcome = "throw"
                      /\ seen'.err = "TypeError"
                      /\ nInst' = nInst
       IN  /\ IF matching
                THEN IF isNullable(x.value) THEN aSome \/ refused ELSE aSome
                ELSE /\ seen'.outcome = "return"
                     /\ r.k = "instance"
                     /\ r.n \in 1..nInst
                     /\ nInst' = nInst
                     /\ variant'[r.n].cls = "Option"
                     /\ Option_isNone(variant'[r.n])
           /\ \A s \in LiveInsts : variant'[s] = variant[s]]_vars

\* The error projection of Err(null) threw a TypeError: nothing was
\* constructed and the Err is as it was.
C18_Witness ==
  /\ seen.op = "Result.error"
  /\ variant[seen.self] = Result_Err(Null)
  /\ seen.outcome = "throw"
  /\ seen.err = "TypeError"
  /\ nInst = seen.self

\* C19: a channel-specific map transforms only its own channel.  Result.map
\* on an Ok, mapErr on an Err, Either.mapLeft on a Left and mapRight on a
\* Right call fn once, with the contained value, and return a new container
\* of the same class and variant that holds what fn returned, the receiver
\* staying as it was; on the other variant fn is not called and the receiver
\* itself is returned, unchanged.
C19_ChannelMaps ==
  [][seen'.op \in {"Result.map", "Result.mapErr", "Either.mapLeft", "Either.mapRight"} =>
       LET i == seen'.self
           x == variant[i]
           channel == CASE seen'.op = "Result.map" -> "Ok"
                        [] seen'.op = "Result.mapErr" -> "Err"
                        [] seen'.op = "Either.mapLeft" -> "Left"
                        [] seen'.op = "Either.mapRight" -> "Right"
       IN  /\ seen'.outcome = "return"
           /\ \A s \in LiveInsts : variant'[s] = variant[s]
           /\ IF x.tag = channel
                THEN /\ seen'.calls = <<[name |-> seen'.fn, args |-> <<x.value>>]>>
                     /\ nInst' = nInst + 1
                     /\ seen'.ret = Inst(nInst')
                     /\ variant'[nInst'] =
                          [cls |-> x.cls, tag |-> x.tag, value |-> Apply(seen'.fn, x.value)]
                ELSE /\ seen'.calls = <<>>
                     /\ seen'.ret = Inst(i)
                     /\ nInst' = nInst]_vars

\* mapRight on a Left returned the Left itself without calling fn, the Left
\* being one that mapLeft had made out of another Left.
C19_Witness ==
  /\ seen.op = "Either.mapRight"
  /\ seen.calls = <<>>
  /\ seen.ret = Inst(seen.self)
  /\ variant[seen.self] = Either_Left(Num(0))
  /\ \E j \in LiveInsts : j < seen.self /\ variant[j] = Either_Left(Num(1))

\* C20: Result.from(fn), and Result.fromAsync(fn) once awaited, let no fault
\* escape.  They call fn once and return a new Result: when fn returns x, an
\* Ok whose unwrap gives x; when fn throws t, an Err whose unwrapErr gives
\* exactly t.  The call of fromAsync itself runs fn, hands back a promise
\* and constructs nothing; the await calls fn no second time.
C20_ResultFrom ==
  [][/\ seen'.op = "Result.fromAsync" =>
          /\ seen'.outcome = "return"
          /\ seen'.ret.k = "promise"
          /\ seen'.calls = <<[name |-> seen'.fn, args |-> <<>>]>>
          /\ nInst' = nInst /\ variant' = variant
     /\ seen'.op \in {"Result.from", "await Result.fromAsync"} =>
       LET r == variant'[nInst'] IN
         /\ seen'.outcome = "return"
         /\ seen'.calls = IF seen'.op = "Result.from"
                            THEN <<[name |-> seen'.fn, args |-> <<>>]>> ELSE <<>>
         /\ nInst' = nInst + 1
         /\ seen'.ret = Inst(nInst')
         /\ IF ThunkRaises(seen'.fn)
              THEN /\ Result_isErr(r) /\ ~Result_isOk(r)
                   /\ Result_unwrapErr(r).outcome = "return"
                   /\ Result_unwrapErr(r).ret = Raised(seen'.fn)
              ELSE /\ Result_isOk(r) /\ ~Result_isErr(r)
                   /\ Result_unwrap(r).outcome = "return"
                   /\ Result_unwrap(r).ret = Run(seen'.fn)]_vars

\* The awaited fromAsync of a function that throws an Error object returned
\* an Err holding that object, as the third container, next to the Ok
\* holding null that Result.from made of a function returning null.
C20_Witness ==
  /\ seen.op = "await Result.fromAsync"
  /\ seen.ret.n = 3
  /\ variant[2] = Result_Ok(Null)
  /\ seen.fn = "throwsError"
  /\ seen.outcome = "return"
  /\ seen.ret.k = "instance"
  /\ variant[seen.ret.n] = Result_Err(Raised("throwsError"))

\* C21: Result.Ok applied to null or undefined does not make an Ok.  The
\* Result returned has isErr true and isOk false, its unwrap throws, and its
\* cause names the rejected value: the string 'Value of type "null"' (20
\* characters), respectively 'Value of type "undefined"' (25 characters).
C21_OkOfNullish ==
  [][(seen'.op = "Result.Ok" /\ seen'.arg \in {Null, Undefined}) =>
       LET r == variant'[nInst'] IN
         /\ seen'.outcome = "return"
         /\ nInst' = nInst + 1
         /\ seen'.ret = Inst(nInst')
         /\ Result_isErr(r)
         /\ ~Result_isOk(r)
         /\ Result_unwrap(r).outcome = "throw"
         /\ Result_unwrapErr(r).outcome = "return"
         /\ Result_unwrapErr(r).ret = IF seen'.arg = Null THEN Str(20) ELSE Str(25)]_vars

\* C22: Option.from(fn) and the awaited Option.fromAsync(fn) never let a
\* fault through.  They return a new Option: a Some holding what fn returned
\* when that is not absent, a None when fn returned null or undefined and
\* when fn threw.
C22_From ==
  [][last'.op \in {"from", "await fromAsync"} =>
       /\ last'.outcome = "return"
       /\ nOpt' = nOpt + 1
       /\ last'.ret = Ref(nOpt')
       /\ IF ThunkThrows(last'.fn)
            THEN isNone(value'[nOpt'])
            ELSE IF Run(last'.fn) \in {Null, Undefined}
              THEN isNone(value'[nOpt'])
              ELSE isSome(value'[nOpt']) /\ value'[nOpt'] = Run(last'.fn)]_vars

\* C23: in the strict Option a Some never holds a nullable value.
\* Option.Some(v) throws a TypeError exactly when v is null or undefined and
\* otherwise returns a Some holding v; map throws a TypeError when fn
\* returns null or undefined and otherwise returns a Some holding fn's
\* result; Option.from(v) returns a None exactly when v is null or undefined
\* and otherwise a Some holding v, the falsy false, 0 and "" included.
C23_StrictOption ==
  [][LET i == seen'.self
         new == variant'[nInst']
         made(v) == /\ seen'.outcome = "return"
                    /\ nInst' = nInst + 1
                    /\ seen'.ret = Inst(nInst')
                    /\ new = [cls |-> "Option", tag |-> "Some", value |-> v]
         refused == /\ seen'.outcome = "throw"
                    /\ seen'.err = "TypeError"
                    /\ nInst' = nInst
                    /\ variant' = variant
     IN  /\ seen'.op = "OptionS.Some" =>
              IF seen'.arg \in {Null, Undefined} THEN refused ELSE made(seen'.arg)
         /\ seen'.op = "OptionS.from" =>
              IF seen'.arg \in {Null, Undefined}
                THEN /\ seen'.outcome = "return"
                     /\ seen'.ret = Inst(nInst')
                     /\ nInst' = nInst + 1
                     /\ new.tag = "None"
                ELSE made(seen'.arg)
         /\ (seen'.op = "OptionS.map" /\ variant[i].tag = "Some") =>
              IF Apply(seen'.fn, variant[i].value) \in {Null, Undefined}
                THEN refused
                ELSE made(Apply(seen'.fn, variant[i].value))
         /\ \A s \in 1..nInst' :
              variant'[s].tag = "Some" => variant'[s].value \notin {Null, Undefined}]_vars

\* map threw a TypeError for a callback returning undefined, on a Some that
\* holds the falsy value 0.
C23_Witness ==
  /\ seen.op = "OptionS.map"
  /\ seen.fn = "constUndefined"
  /\ seen.outcome = "throw"
  /\ seen.err = "TypeError"
  /\ variant[seen.self] = Option_Some(Num(0))

\* C24: instanceof Some, instanceof None and the helpers isSome(), isNone()
\* reflect the current state.  Of an Option x they answer x.isSome and
\* x.isNone, so exactly one of each pair is true, and a Some that was
\* unwrapped is an instance of None; of a value that is not an Option all
\* four answer false.
C24_Instanceof ==
  [][LET v == last'.arg
         answer == last'.ret
         expected(some) ==
           IF v.k = "option"
             THEN Bool(IF some THEN isSome(value[v.n]) ELSE isNone(value[v.n]))
             ELSE Bool(FALSE)
     IN  /\ last'.op \in {"isSome()", "isNone()", "instanceof Some", "instanceof None"} =>
              value' = value
         /\ last'.op \in {"isSome()", "instanceof Some"} => answer = expected(TRUE)
         /\ last'.op \in {"isNone()", "instanceof None"} => answer = expected(FALSE)
         /\ \A o \in Live :
              /\ Some_hasInstance(value, Ref(o)) # None_hasInstance(value, Ref(o))
              /\ isSome_helper(value, Ref(o)) # isNone_helper(value, Ref(o))
              /\ taken[o] > 0 => None_hasInstance(value, Ref(o))]_vars

\* C25, as claimed: an Either exposes exactly one side.  Of Left(v), isLeft
\* is true and isRight false, unwrapLeft returns v, unwrapRight throws,
\* `left` is a Some holding v and `right` is a None; of Right(v) the same
\* with the sides exchanged.  None of these reads changes a container, so a
\* repeated read answers the same.
C25_EitherSidesOfAny ==
  [][LET i == seen'.self
         x == variant[i]
         op == seen'.op
         side == IF x.tag = "Left" THEN "Left" ELSE "Right"
         asked == IF op \in {"Either.unwrapLeft", "Either.left"} THEN "Left" ELSE "Right"
         born == variant'[nInst']
     IN  /\ op \in {"Either.Left", "Either.Right"} =>
              /\ nInst' = nInst + 1
              /\ Either_isLeft(born) = (op = "Either.Left")
              /\ Either_isRight(born) = (op = "Either.Right")
              /\ born.value = seen'.arg
         /\ op \in {"Either.unwrapLeft", "Either.unwrapRight", "Either.left", "Either.right"} =>
              /\ Either_isLeft(x) # Either_isRight(x)
              /\ \A s \in 1..nInst : variant'[s] = variant[s]
              /\ op \in {"Either.unwrapLeft", "Either.unwrapRight"} =>
                   IF asked = side
                     THEN seen'.outcome = "return" /\ seen'.ret = x.value
                     ELSE seen'.outcome = "throw"
              /\ op \in {"Either.left", "Either.right"} =>
                   /\ seen'.outcome = "return"
                   /\ seen'.ret.k = "instance"
                   /\ variant'[seen'.ret.n] =
                        IF asked = side THEN Option_Some(x.value) ELSE Option_None]_vars

\* C25, amended: an Either exposes exactly one side.  Of Left(v), isLeft is
\* true and isRight false, unwrapLeft returns v, unwrapRight throws and
\* `right` is a None; `left` is a new Some holding v when v is neither null
\* nor undefined, and when it is, either a new Some holding v or a
\* TypeError with nothing constructed, according to the Option class behind
\* option/mod.ts.  Of Right(v) the same with the sides exchanged.  None of
\* these reads, also one that throws, changes a container.
C25_EitherSides ==
  [][LET i == seen'.self
         x == variant[i]
         op == seen'.op
         side == IF x.tag = "Left" THEN "Left" ELSE "Right"
         asked == IF op \in {"Either.unwrapLeft", "Either.left"} THEN "Left" ELSE "Right"
         born == variant'[nInst']
         aSome == /\ seen'.outcome = "return"
                  /\ seen'.ret = Inst(nInst + 1)
                  /\ nInst' = nInst + 1
                  /\ born = Option_Some(x.value)
         refused == /\ seen'.outcome = "throw"
                    /\ seen'.err = "TypeError"
                    /\ nInst' = nInst
     IN  /\ op \in {"Either.Left", "Either.Right"} =>
              /\ nInst' = nInst + 1
              /\ Either_isLeft(born) = (op = "Either.Left")
              /\ Either_isRight(born) = (op = "Either.Right")
              /\ born.value = seen'.arg
         /\ op \in {"Either.unwrapLeft", "Either.unwrapRight", "Either.left", "Either.right"} =>
              /\ Either_isLeft(x) # Either_isRight(x)
              /\ \A s \in 1..nInst : variant'[s] = variant[s]
              /\ op \in {"Either.unwrapLeft", "Either.unwrapRight"} =>
                   IF asked = side
                     THEN seen'.outcome = "return" /\ seen'.ret = x.value
                     ELSE seen'.outcome = "throw"
              /\ op \in {"Either.left", "Either.right"} =>
                   IF asked = side
                     THEN IF isNullable(x.value) THEN aSome \/ refused ELSE aSome
                     ELSE /\ seen'.outcome = "return"
                          /\ seen'.ret.k = "instance"
                          /\ nInst' = nInst
                          /\ variant'[seen'.ret.n] = Option_None]_vars

\* `left` of a Left holding null threw a TypeError and the Left is as it
\* was, next to a Right holding 1.
C25_Witness ==
  /\ seen.op = "Either.left"
  /\ variant[seen.self] = Either_Left(Null)
  /\ seen.outcome = "throw"
  /\ seen.err = "TypeError"
  /\ \E k \in LiveInsts : variant[k] = Either_Right(Num(1))

\* C28: the shared None leaks no state.  The module-level None keeps its
\* None variant through every operation: an unwrap on it throws, unwrapOr
\* answers the fallback, map answers the None itself without calling fn,
\* match runs the None handler only, and a Result or Either projection that
\* hands it out leaves it as it was; whoever holds it sees isNone true and
\* isSome false.
C28_SharedNone ==
  [][LET shared == variant'[SharedNone]
         op == seen'.op
     IN  /\ shared = Option_None
         /\ Option_isNone(shared) /\ ~Option_isSome(shared)
         /\ \A s \in 1..nInst' : variant'[s].tag = "None" => variant'[s] = Option_None
         /\ (seen'.ret.k = "instance" /\ seen'.ret.n # nInst + 1
               /\ op \in {"Result.ok", "Result.error", "Either.left", "Either.right"}) =>
              seen'.ret = Inst(SharedNone)
         /\ seen'.self = SharedNone =>
              /\ op = "Option.unwrap" => seen'.outcome = "throw"
              /\ op = "Option.unwrapOr" => seen'.ret = seen'.arg
              /\ op = "Option.map" => seen'.ret = Inst(SharedNone) /\ seen'.calls = <<>>
              /\ op = "Option.match" =>
                   Len(seen'.calls) = 1 /\ seen'.calls[1].name = "None"]_vars

\* unwrapOr answered its fallback on the shared None while an Err and a Left
\* exist whose projections hand that None out.
C28_Witness ==
  /\ seen.op = "Option.unwrapOr"
  /\ seen.self = SharedNone
  /\ seen.ret = Num(1)
  /\ \E i, j \in LiveInsts : variant[i].tag = "Err" /\ variant[j].tag = "Left"

\* C26: the consuming read is the only operation that can fail.  As long as
\* the callbacks handed in do not throw, Some, None, from, isSome, isNone,
\* peek, map, mapOr, or, flatten, unwrapOr and unwrapOrElse return in every
\* state; unwrap and expect throw only on an instance that is None.
C26_OnlyReadsFail ==
  [][LET op == last'.op
         quiet == ~ThunkThrows(last'.fn)
     IN  /\ (quiet /\ op \in {"Some", "None", "from", "isSome", "isNone", "peek", "map",
                               "mapOr", "or", "flatten", "unwrapOr", "unwrapOrElse"}) =>
              last'.outcome = "return"
         /\ (op \in {"unwrap", "expect"} /\ last'.outcome = "throw") =>
              isNone(value[last'.self])]_vars

\* unwrapOr returned its fallback on an instance that a consuming read had
\* emptied before.
C26_Witness ==
  /\ last.op = "unwrapOr"
  /\ last.outcome = "return"
  /\ taken[last.self] = 1
  /\ isNone(value[last.self])
  /\ last.ret = last.arg

\* C27: an instance is Some or None, never both and never neither: isSome
\* is the negation of isNone, and isSome holds exactly when the stored
\* payload is none of null, undefined and the `none` symbol, so that no Some
\* holds an absent payload.
C27_SomeXorNone ==
  \A o \in Live :
    /\ isSome(value[o]) # isNone(value[o])
    /\ isSome(value[o]) <=> value[o] \notin Absent

\* Some(null) was called and the instance it made is a None, next to an
\* instance that is a Some.
C27_Witness ==
  /\ last.op = "Some"
  /\ last.arg = Null
  /\ isNone(value[last.ret.n])
  /\ \E o \in Live : isSome(value[o])

\* C29: a.or(b), flatten() and map on a None answer with an instance that
\* exists already, never with a copy.  A consuming read through the answer
\* therefore empties exactly that instance: unwrapping a.or(b) for a Some a
\* leaves a None and b as it was, and unwrapping x.flatten() for a Some x
\* whose payload is not an Option leaves x None.
C29_Aliases ==
  [][LET alias(l, h) ==
           \/ l.op \in {"or", "flatten"}
           \/ l.op = "map" /\ isNone(h[l.self])
         r == last.ret.n
     IN  /\ alias(last', value) =>
              /\ last'.ret.k = "option"
              /\ last'.ret.n \in Live
              /\ nOpt' = nOpt
              /\ value' = value
         /\ (/\ alias(last, value)
              /\ last'.op = "unwrap"
              /\ last'.self = r
              /\ last'.outcome = "return") =>
              /\ isNone(value'[r])
              /\ \A s \in Objs \ {r} : value'[s] = value[s]
              /\ (last.op = "or" /\ isSome(value[last.self])) =>
                   /\ isNone(value'[last.self])
                   /\ last.arg.n # last.self => value'[last.arg.n] = value[last.arg.n]
              /\ (last.op = "flatten" /\ isSome(value[last.self])
                    /\ value[last.self].k # "option") =>
                   isNone(value'[last.self])]_vars

\* a.or(b) answered a for a Some a and a different Some b.
C29_Witness ==
  /\ last.op = "or"
  /\ isSome(value[last.self])
  /\ last.ret = Ref(last.self)
  /\ last.arg # Ref(last.self)
  /\ isSome(value[last.arg.n])

\* C30: flatten is read-only and idempotent.  It changes no Option of the
\* chain it walks, and flattening its answer gives that same instance
\* again: x.flatten().flatten() is x.flatten().
C30_FlattenIdempotent ==
  [][last'.op = "flatten" =>
       LET f == last'.ret.n
       IN  /\ last'.outcome = "return"
           /\ value' = value
           /\ nOpt' = nOpt
           /\ flatten(value', f).same = f
           /\ (last.op = "flatten" /\ last'.self = last.ret.n) => last'.ret = last.ret]_vars

\* flatten answered with its receiver, which is the payload of another
\* instance and so what flatten of that instance answers.
C30_Witness ==
  /\ last.op = "flatten"
  /\ last.ret = Ref(last.self)
  /\ \E o \in Live : value[o] = Ref(last.self) /\ flatten(value, o).same = last.self
====
